---- MODULE Spec2Model ----
(***************************************************************************)
(* FinanceGuruPro (src/main.py): a Flask application over one SQLite table *)
(* `transactions`.  The model keeps the table, SQLite's AUTOINCREMENT      *)
(* counter, the last HTTP response and the one dashboard request that may  *)
(* be in flight while other requests write.                                *)
(*                                                                         *)
(* Numbers.  `amount` is a REAL column and every sum is a sum of IEEE      *)
(* doubles.  The model keeps the shape of that arithmetic (a significand   *)
(* of MantBits bits, round-half-to-even after every addition) at a reduced *)
(* width, so that rounding happens on small values.                        *)
(*                                                                         *)
(* Dates.  A date is a number 10*month + day; 0 stands for a string that   *)
(* pandas.to_datetime cannot parse (the API never validates `date`).       *)
(*                                                                         *)
(* Sources.  A source label is a number; the numeric order stands for the  *)
(* lexicographic order of the labels.                                      *)
(***************************************************************************)
EXTENDS Integers, Sequences, FiniteSets

VARIABLES
    table,      \* rows of `transactions`, in rowid order
    seq,        \* sqlite_sequence: the largest rowid ever committed
    assigned,   \* history: every id ever committed
    resp,       \* the response of the last completed request
    dash        \* the dashboard request (home) in flight, or idle

vars == <<table, seq, assigned, resp, dash>>

----------------------------------------------------------------------------
(* Bounds of the model *)

MaxId == 3          \* cap on the AUTOINCREMENT counter (ledger specifications)
MaxIdTop == 6       \* the same cap in the top-sources specification
MantBits == 3       \* significand width of the modelled REAL
MaxBatch == 2       \* rows of an uploaded spreadsheet

(* Program constants *)

TopN == 5           \* .head(5)
RecentLimit == 10   \* get_transactions(limit=10)

----------------------------------------------------------------------------
(* REAL arithmetic *)

RECURSIVE Pow2(_)
Pow2(n) == IF n = 0 THEN 1 ELSE 2 * Pow2(n - 1)

\* The spacing of representable values around x >= 0.
RECURSIVE Quantum(_, _)
Quantum(x, q) == IF x \div q < Pow2(MantBits) THEN q ELSE Quantum(x, 2 * q)

\* Round x >= 0 to the nearest representable value, ties to even.
FRound(x) ==
    LET q == Quantum(x, 1)
        m == x \div q
        r == x % q
    IN  IF 2 * r < q THEN m * q
        ELSE IF 2 * r > q THEN (m + 1) * q
        ELSE IF m % 2 = 0 THEN m * q ELSE (m + 1) * q

\* float(v) / pd.to_numeric: the nearest REAL.
ToFloat(v) == IF v < 0 THEN 0 - FRound(0 - v) ELSE FRound(v)

FAdd(a, b) == ToFloat(a + b)
FSub(a, b) == ToFloat(a - b)

\* SUM(amount), sum(amounts), .sum(): accumulate left to right.
RECURSIVE FSum(_)
FSum(s) == IF s = <<>> THEN 0 ELSE FAdd(FSum(SubSeq(s, 1, Len(s) - 1)), s[Len(s)])

----------------------------------------------------------------------------
(* Sequence helpers *)

SeqToSet(s) == {s[i] : i \in 1..Len(s)}

Amounts(rows) == [i \in 1..Len(rows) |-> rows[i].amount]

\* s, a sequence of records with a numeric field k, sorted by k ascending;
\* equal keys keep their order in s (a stable sort).
RECURSIVE InsertSorted(_, _)
InsertSorted(s, x) ==
    IF s = <<>> THEN <<x>>
    ELSE IF s[Len(s)].k <= x.k THEN Append(s, x)
    ELSE Append(InsertSorted(SubSeq(s, 1, Len(s) - 1), x), s[Len(s)])

RECURSIVE StableSort(_)
StableSort(s) ==
    IF s = <<>> THEN <<>>
    ELSE InsertSorted(StableSort(SubSeq(s, 1, Len(s) - 1)), s[Len(s)])

Reverse(s) == [i \in 1..Len(s) |-> s[Len(s) + 1 - i]]

\* The members of a finite set of numbers, ascending.
RECURSIVE SortedSeq(_)
SortedSeq(S) ==
    IF S = {} THEN <<>>
    ELSE LET m == CHOOSE x \in S : \A y \in S : y <= x
         IN  Append(SortedSeq(S \ {m}), m)

\* Series.head(n)
head(s, n) == IF Len(s) <= n THEN s ELSE SubSeq(s, 1, n)

----------------------------------------------------------------------------
(* The schema (init_db) and the storage operations *)

ValidTypes == {"income", "expense", "investment"}

RequiredFields == {"date", "type", "source", "amount"}

\* CHECK(type IN (...)) and CHECK(amount >= 0) of CREATE TABLE transactions.
CheckConstraints(vals) == vals.type \in ValidTypes /\ vals.amount >= 0

\* Mutant: INTEGER PRIMARY KEY without AUTOINCREMENT, one more than the
\* largest rowid now in the table.
AllocId_rowid(tbl, sq) ==
    IF tbl = <<>> THEN 1
    ELSE 1 + (CHOOSE m \in {tbl[i].id : i \in 1..Len(tbl)} :
                 \A i \in 1..Len(tbl) : tbl[i].id <= m)

\* id INTEGER PRIMARY KEY AUTOINCREMENT: one more than the largest rowid the
\* table has ever held, which sqlite_sequence remembers across deletes.
AllocId(tbl, sq) == sq + 1

\* One INSERT INTO transactions (date, type, source, amount, description) on a
\* connection whose view is conn = [table, seq].  It raises when a value
\* cannot be bound or a constraint fails.
ExecInsert(conn, vals) ==
    IF ~vals.bind \/ ~CheckConstraints(vals)
    THEN [ok |-> FALSE, table |-> conn.table, seq |-> conn.seq, id |-> 0]
    ELSE LET id == AllocId(conn.table, conn.seq)
         IN  [ok |-> TRUE,
              table |-> Append(conn.table,
                               [id |-> id, date |-> vals.date, type |-> vals.type,
                                source |-> vals.source, amount |-> vals.amount]),
              seq |-> id,
              id |-> id]

\* Mutant: the DELETE without its WHERE clause.
ExecDelete_all(tbl, id) == <<>>

\* DELETE FROM transactions WHERE id = ?
ExecDelete(tbl, id) == SelectSeq(tbl, LAMBDA t : t.id # id)

\* Mutant: a connection in autocommit mode, every INSERT is durable at once.
CloseUncommitted_autocommit(db, conn) == [table |-> conn.table, seq |-> conn.seq]

\* get_db: the connection is closed in `finally`; what was not committed
\* is rolled back, so the database stays as it was (db), whatever the
\* connection had done (conn).
CloseUncommitted(db, conn) == db

Ids(tbl) == {tbl[i].id : i \in 1..Len(tbl)}

----------------------------------------------------------------------------
(* Requests and responses *)

\* A request body or a spreadsheet row: the keys present (non-null), the
\* values, whether `amount` is numeric, and whether sqlite3 can bind the
\* values (a JSON list or a time cell cannot be bound).
Request(keys, date, type, source, num, v, bind) ==
    [keys |-> keys, date |-> date, type |-> type, source |-> source,
     amount |-> [num |-> num, v |-> v], bind |-> bind]

NoData == [kind |-> "none"]

Resp(op, req, status, id, count, data) ==
    [op |-> op, req |-> req, status |-> status, id |-> id, count |-> count,
     data |-> data]

Idle == [pc |-> "idle", totals |-> NoData, recent |-> <<>>,
         charts |-> [ty \in ValidTypes |-> NoData]]

Init ==
    /\ table = <<>>
    /\ seq = 0
    /\ assigned = {}
    /\ resp = Resp("start", NoData, 0, 0, 0, NoData)
    /\ dash = Idle

----------------------------------------------------------------------------
(* POST /api/transactions *)

\* Mutant: the validation without its test of the amount's sign.
ApiValidate_nosign(d) ==
    IF ~(RequiredFields \subseteq d.keys) THEN "Missing required fields"
    ELSE IF d.type \notin {"income", "expense", "investment"} THEN "Invalid transaction type"
    ELSE IF ~d.amount.num THEN "Invalid amount"
    ELSE "ok"

\* The validation of api_add_transaction: the error it answers with, or "ok".
ApiValidate(d) ==
    IF ~(RequiredFields \subseteq d.keys) THEN "Missing required fields"
    ELSE IF d.type \notin {"income", "expense", "investment"} THEN "Invalid transaction type"
    ELSE IF ~d.amount.num THEN "Invalid amount"
    ELSE IF ToFloat(d.amount.v) < 0 THEN "Amount must be positive"
    ELSE "ok"

api_add_transaction(d, cap) ==
    LET err == ApiValidate(d)
        vals == [date |-> d.date, type |-> d.type, source |-> d.source,
                 amount |-> ToFloat(d.amount.v), bind |-> d.bind]
        r == ExecInsert([table |-> table, seq |-> seq], vals)
    IN  IF err # "ok"
        THEN /\ resp' = Resp("add", d, 400, 0, 0, [kind |-> "error", error |-> err])
             /\ UNCHANGED <<table, seq, assigned, dash>>
        ELSE IF ~r.ok
        THEN \* the exception is caught by `except Exception`: 500
             /\ resp' = Resp("add", d, 500, 0, 0, [kind |-> "error", error |-> "exception"])
             /\ LET db == CloseUncommitted([table |-> table, seq |-> seq], r)
                IN  table' = db.table /\ seq' = db.seq
             /\ UNCHANGED <<assigned, dash>>
        ELSE /\ r.id <= cap
             /\ table' = r.table
             /\ seq' = r.seq
             /\ assigned' = assigned \cup {r.id}
             /\ resp' = Resp("add", d, 201, r.id, 0, NoData)
             /\ UNCHANGED dash

----------------------------------------------------------------------------
(* DELETE /api/transactions/<id> *)

api_delete_transaction(transaction_id) ==
    LET after == ExecDelete(table, transaction_id)
        rowcount == Len(table) - Len(after)
    IN  IF rowcount = 0
        THEN /\ resp' = Resp("delete", transaction_id, 404, 0, 0, NoData)
             /\ UNCHANGED <<table, seq, assigned, dash>>
        ELSE /\ table' = after
             /\ resp' = Resp("delete", transaction_id, 200, 0, 0, NoData)
             /\ UNCHANGED <<seq, assigned, dash>>

----------------------------------------------------------------------------
(* POST /upload *)

\* dropna(subset=required_cols), to_numeric(errors='coerce') and dropna,
\* amount >= 0, type.isin(valid_types): the rows that are inserted.
RowPasses(row) ==
    /\ RequiredFields \subseteq row.keys
    /\ row.amount.num
    /\ ToFloat(row.amount.v) >= 0
    /\ row.type \in {"income", "expense", "investment"}

Clean(rows) ==
    LET kept == SelectSeq(rows, RowPasses)
    IN  [i \in 1..Len(kept) |->
            [date |-> kept[i].date, type |-> kept[i].type, source |-> kept[i].source,
             amount |-> ToFloat(kept[i].amount.v), bind |-> kept[i].bind]]

\* for _, row in df.iterrows(): conn.execute(INSERT ...), stopping at the
\* first insert that raises.
RECURSIVE InsertAll(_, _)
InsertAll(conn, rows) ==
    IF rows = <<>> THEN [ok |-> TRUE, table |-> conn.table, seq |-> conn.seq]
    ELSE LET r == ExecInsert(conn, Head(rows))
         IN  IF ~r.ok THEN [ok |-> FALSE, table |-> conn.table, seq |-> conn.seq]
             ELSE InsertAll([table |-> r.table, seq |-> r.seq], Tail(rows))

Flash(file, category, count) ==
    Resp("upload", file, 302, 0, count, [kind |-> category])

upload_file(file, cap) ==
    LET df == Clean(file.rows)
        r == InsertAll([table |-> table, seq |-> seq], df)
        db == CloseUncommitted([table |-> table, seq |-> seq], r)
    IN  IF ~file.xlsx \/ ~(RequiredFields \subseteq file.cols) \/ df = <<>>
        THEN /\ resp' = Flash(file, "error", 0)
             /\ UNCHANGED <<table, seq, assigned, dash>>
        ELSE IF ~r.ok
        THEN /\ resp' = Flash(file, "error", 0)
             /\ table' = db.table
             /\ seq' = db.seq
             /\ UNCHANGED <<assigned, dash>>
        ELSE /\ r.seq <= cap
             /\ table' = r.table
             /\ seq' = r.seq
             /\ assigned' = assigned \cup Ids(r.table)
             /\ resp' = Flash(file, "success", Len(df))
             /\ UNCHANGED dash

----------------------------------------------------------------------------
(* Queries *)

RowsOfType(rows, ty) == SelectSeq(rows, LAMBDA t : t.type = ty)

RowsOfSource(rows, src) == SelectSeq(rows, LAMBDA t : t.source = src)

\* ORDER BY total DESC / sort of a grouped result, largest total first.
\* Descending(s, FALSE): equal totals keep the order they have in s.
\* Descending(s, TRUE): equal totals come out in the reverse of that order.
Descending(s, rev) ==
    IF rev THEN Reverse(StableSort(s)) ELSE Reverse(StableSort(Reverse(s)))

\* SELECT <key>, SUM(amount) ... GROUP BY source and
\* groupby('source')['amount'].sum(): one entry per distinct source, in the
\* order of the source labels, each the sum of its rows in row order.
GroupBySource(rows) ==
    LET keys == SortedSeq({rows[i].source : i \in 1..Len(rows)})
    IN  [i \in 1..Len(keys) |->
            [source |-> keys[i],
             k |-> FSum(Amounts(RowsOfSource(rows, keys[i])))]]

\* Mutant: the query without GROUP BY, every type gets the sum of all rows.
GroupByType_nogroup(tbl) ==
    {[type |-> ty, total |-> FSum(Amounts(tbl))] :
        ty \in {tbl[i].type : i \in 1..Len(tbl)}}

\* SELECT type, SUM(amount) AS total FROM transactions GROUP BY type
GroupByType(tbl) ==
    {[type |-> ty, total |-> FSum(Amounts(RowsOfType(tbl, ty)))] :
        ty \in {tbl[i].type : i \in 1..Len(tbl)}}

calculate_totals(tbl) ==
    LET rows == GroupByType(tbl)
        totals == [ty \in ValidTypes |->
                      IF \E r \in rows : r.type = ty
                      THEN (CHOOSE r \in rows : r.type = ty).total
                      ELSE 0]
    IN  [kind |-> "totals",
         total_income |-> totals["income"],
         total_expense |-> totals["expense"],
         total_investment |-> totals["investment"],
         net_savings |-> FSub(totals["income"], totals["expense"])]

\* SELECT * FROM transactions ORDER BY date DESC, created_at DESC LIMIT n
\* (created_at follows the insertion order, as the rowid does).
get_transactions(tbl, limit) ==
    LET keyed == [i \in 1..Len(tbl) |-> [k |-> tbl[i].date, row |-> tbl[i]]]
        sorted == Descending(Reverse(keyed), FALSE)
    IN  head([i \in 1..Len(sorted) |-> sorted[i].row], limit)

None == [kind |-> "None"]

\* Mutant: the query without WHERE type = ?, every chart shows all rows.
generate_chart_anytype(tbl, chart_type) ==
    LET data == Descending(GroupBySource(tbl), FALSE)
        sources == [i \in 1..Len(data) |-> data[i].source]
        amounts == [i \in 1..Len(data) |-> data[i].k]
    IN  IF data = <<>> THEN None
        ELSE [kind |-> "chart", sources |-> sources, amounts |-> amounts,
              total |-> FSum(amounts)]

\* generate_chart: the rows of the donut (sources, amounts) and the total
\* written in its centre, or None.
generate_chart(tbl, chart_type) ==
    LET data == Descending(GroupBySource(RowsOfType(tbl, chart_type)), FALSE)
        sources == [i \in 1..Len(data) |-> data[i].source]
        amounts == [i \in 1..Len(data) |-> data[i].k]
    IN  IF data = <<>> THEN None
        ELSE [kind |-> "chart", sources |-> sources, amounts |-> amounts,
              total |-> FSum(amounts)]

\* SELECT ... FROM transactions ORDER BY date
ReadSqlOrderByDate(tbl) ==
    LET keyed == [i \in 1..Len(tbl) |-> [k |-> tbl[i].date, row |-> tbl[i]]]
        sorted == StableSort(keyed)
    IN  [i \in 1..Len(sorted) |-> sorted[i].row]

BadDate == 0

\* pd.to_datetime(df['date']) raises on a string that is no date.
Parses(df) == \A i \in 1..Len(df) : df[i].date # BadDate

\* df['date'].dt.to_period('M')
MonthOf(date) == date \div 10

\* Mutant: unstack() without fill_value, a month without rows of a column's
\* type holds no number (NaN, written -1 here).
MonthlyPivot_nofill(df) ==
    LET months == SortedSeq({MonthOf(df[i].date) : i \in 1..Len(df)})
        columns == {df[i].type : i \in 1..Len(df)}
        group(m, ty) == SelectSeq(df, LAMBDA t : MonthOf(t.date) = m /\ t.type = ty)
    IN  [months |-> months,
         columns |-> columns,
         value |-> [m \in SeqToSet(months) |-> [ty \in columns |->
                      IF group(m, ty) = <<>> THEN -1 ELSE FSum(Amounts(group(m, ty)))]]]

\* df.groupby(['month', 'type'])['amount'].sum().unstack(fill_value=0): one
\* row per month present, ascending; one column per type present anywhere in
\* df; 0 where a month has no row of a column's type.
MonthlyPivot(df) ==
    LET months == SortedSeq({MonthOf(df[i].date) : i \in 1..Len(df)})
        columns == {df[i].type : i \in 1..Len(df)}
        group(m, ty) == SelectSeq(df, LAMBDA t : MonthOf(t.date) = m /\ t.type = ty)
    IN  [months |-> months,
         columns |-> columns,
         value |-> [m \in SeqToSet(months) |-> [ty \in columns |->
                      IF group(m, ty) = <<>> THEN 0 ELSE FSum(Amounts(group(m, ty)))]]]

\* generate_trend_chart: None, the chart (its monthly_data), or the
\* exception of to_datetime.
generate_trend_chart(tbl) ==
    LET df == ReadSqlOrderByDate(tbl)
    IN  IF df = <<>> THEN None
        ELSE IF ~Parses(df) THEN [kind |-> "raise"]
        ELSE [kind |-> "chart", monthly_data |-> MonthlyPivot(df)]

\* Mutant: sort_values() with its default, ascending order.
TopSources_ascending(df, ty, rev) ==
    LET sorted == StableSort(GroupBySource(RowsOfType(df, ty)))
        top == head(sorted, TopN)
    IN  [i \in 1..Len(top) |-> [source |-> top[i].source, amount |-> top[i].k]]

\* groupby('source')['amount'].sum().sort_values(ascending=False).head(5).
\* sort_values does not ask for a stable sort: sources with equal sums come
\* out in label order or in reverse label order (rev), as the installed
\* pandas and numpy decide.
TopSources(df, ty, rev) ==
    LET sorted == Descending(GroupBySource(RowsOfType(df, ty)), rev)
        top == head(sorted, TopN)
    IN  [i \in 1..Len(top) |-> [source |-> top[i].source, amount |-> top[i].k]]

\* analytics_data of /analytics
analytics_data(tbl, rev) ==
    LET df == ReadSqlOrderByDate(tbl)
    IN  IF df = <<>> THEN [kind |-> "empty"]
        ELSE IF ~Parses(df) THEN [kind |-> "raise"]
        ELSE [kind |-> "analytics",
              monthly_summary |-> MonthlyPivot(df),
              top_income |-> TopSources(df, "income", rev),
              top_expenses |-> TopSources(df, "expense", rev),
              total_transactions |-> Len(df)]

----------------------------------------------------------------------------
(* GET /api/dashboard-data, GET /api/transactions, GET /analytics *)

api_dashboard_data ==
    /\ resp' = Resp("dashboard-data", NoData, 200, 0, 0, calculate_totals(table))
    /\ UNCHANGED <<table, seq, assigned, dash>>

api_get_transactions ==
    /\ resp' = Resp("transactions", NoData, 200, 0, 0,
                    [kind |-> "list", rows |-> get_transactions(table, Len(table))])
    /\ UNCHANGED <<table, seq, assigned, dash>>

analytics ==
    \E rev \in BOOLEAN :
        LET data == analytics_data(table, rev)
        IN  /\ resp' = Resp("analytics", NoData,
                            IF data.kind = "raise" THEN 500 ELSE 200, 0, 0, data)
            /\ UNCHANGED <<table, seq, assigned, dash>>

----------------------------------------------------------------------------
(* GET / : home.  Each helper opens its own connection, so each is a read  *)
(* of its own; requests of other clients may commit between two of them.   *)

HomeTotals ==
    /\ dash.pc = "idle"
    /\ dash' = [dash EXCEPT !.pc = "recent", !.totals = calculate_totals(table)]
    /\ UNCHANGED <<table, seq, assigned, resp>>

HomeRecent ==
    /\ dash.pc = "recent"
    /\ dash' = [dash EXCEPT !.pc = "income",
                            !.recent = get_transactions(table, RecentLimit)]
    /\ UNCHANGED <<table, seq, assigned, resp>>

NextChart(ty) ==
    IF ty = "income" THEN "expense" ELSE IF ty = "expense" THEN "investment" ELSE "trend"

HomeChart(chart_type) ==
    /\ dash.pc = chart_type
    /\ dash' = [dash EXCEPT !.pc = NextChart(chart_type),
                            !.charts[chart_type] = generate_chart(table, chart_type)]
    /\ UNCHANGED <<table, seq, assigned, resp>>

\* The last read and render_template(totals, charts, transactions): charts
\* holds the path of each image or None.  An exception of the trend chart
\* is answered with 500.
HomeTrend ==
    /\ dash.pc = "trend"
    /\ LET trend == generate_trend_chart(table)
       IN  resp' = IF trend.kind = "raise"
                   THEN Resp("home", NoData, 500, 0, 0, [kind |-> "error"])
                   ELSE Resp("home", NoData, 200, 0, 0,
                             [kind |-> "dashboard", totals |-> dash.totals,
                              transactions |-> dash.recent,
                              charts |-> [ty \in ValidTypes |-> dash.charts[ty].kind],
                              trend |-> trend.kind])
    /\ dash' = Idle
    /\ UNCHANGED <<table, seq, assigned>>

home == HomeTotals \/ HomeRecent \/ (\E ty \in ValidTypes : HomeChart(ty)) \/ HomeTrend

----------------------------------------------------------------------------
(* Inputs *)

SeqsUpTo(S, n) == UNION {[1..k -> S] : k \in 0..n}

Valid(date, type, source, v) == Request(RequiredFields, date, type, source, TRUE, v, TRUE)

\* Requests no entry point may store: a negative amount, an unknown type, a
\* missing field, an amount that is no number; and one whose values sqlite3
\* cannot bind.
NegativeAmount == Valid(11, "income", 1, -1)
UnknownType == Valid(11, "other", 1, 1)
MissingField == Request(RequiredFields \ {"amount"}, 11, "income", 1, TRUE, 1, TRUE)
NotANumber == Request(RequiredFields, 11, "income", 1, FALSE, 0, TRUE)
Unbindable == Request(RequiredFields, 11, "expense", 2, TRUE, 1, FALSE)

LedgerReqs ==
    {Valid(11, "income", 1, 1), Valid(11, "income", 2, 8), Valid(11, "expense", 1, 8),
     Valid(11, "investment", 1, 0),
     NegativeAmount, UnknownType, MissingField, NotANumber, Unbindable}

UploadRows == {Valid(11, "income", 1, 1), NegativeAmount, Unbindable}

Files ==
    {[xlsx |-> TRUE, cols |-> RequiredFields, rows |-> rows] :
        rows \in SeqsUpTo(UploadRows, MaxBatch)}
        \cup {[xlsx |-> FALSE, cols |-> RequiredFields, rows |-> <<>>],
              [xlsx |-> TRUE, cols |-> RequiredFields \ {"type"}, rows |-> <<>>]}

DashReqs == {Valid(11, "income", 1, 1), Valid(BadDate, "expense", 1, 2)}

\* Spreadsheets of three rows and single requests for the analytics page:
\* six expense sources, some with equal sums, over two months.
TopFiles ==
    {[xlsx |-> TRUE, cols |-> RequiredFields, rows |-> rows] : rows \in
        {<<Valid(11, "expense", 1, 1), Valid(12, "expense", 2, 2), Valid(21, "expense", 3, 2)>>,
         <<Valid(21, "expense", 6, 4), Valid(11, "expense", 5, 1), Valid(11, "expense", 4, 4)>>,
         <<Valid(21, "expense", 3, 1), Valid(11, "income", 2, 1), Valid(12, "income", 1, 1)>>}}

TopReqs ==
    {Valid(11, "expense", 4, 8), Valid(21, "investment", 1, 1),
     Valid(BadDate, "income", 1, 1)}

----------------------------------------------------------------------------
(* Specifications *)

\* The ledger: the writing endpoints and the two JSON reads.
Next ==
    \/ \E d \in LedgerReqs : api_add_transaction(d, MaxId)
    \/ \E id \in 1..MaxId : api_delete_transaction(id)
    \/ \E file \in Files : upload_file(file, MaxId)
    \/ api_dashboard_data
    \/ api_get_transactions

Spec == Init /\ [][Next]_vars

\* The dashboard and the analytics page, read while other requests write.
NextDash ==
    \/ \E d \in DashReqs : api_add_transaction(d, MaxId)
    \/ \E id \in 1..MaxId : api_delete_transaction(id)
    \/ home

SpecDash == Init /\ [][NextDash]_vars

\* The analytics page over ledgers of up to MaxIdTop rows.
NextTop ==
    \/ \E d \in TopReqs : api_add_transaction(d, MaxIdTop)
    \/ \E file \in TopFiles : upload_file(file, MaxIdTop)
    \/ analytics

SpecTop == Init /\ [][NextTop]_vars

----------------------------------------------------------------------------
(* Claims about the ledger, under Spec *)

RECURSIVE SumOfType(_, _)
SumOfType(tbl, ty) ==
    IF tbl = <<>> THEN 0
    ELSE LET rest == SumOfType(SubSeq(tbl, 1, Len(tbl) - 1), ty)
             last == tbl[Len(tbl)]
         IN  IF last.type = ty THEN FAdd(rest, last.amount) ELSE rest

IsStorable(row) == row.amount >= 0 /\ row.type \in {"income", "expense", "investment"}

CarriesBadValue(d) ==
    \/ d.type \notin {"income", "expense", "investment"}
    \/ d.amount.num /\ d.amount.v < 0

\* C2: every step leaves only rows with amount >= 0 and one of the three
\* types in the table; an API request carrying a negative amount or an
\* unknown type is turned away by the validation (400) and adds nothing, and
\* an upload adds no more rows than its file has rows without such a value.
C2_OnlyValidRows ==
    [][/\ \A i \in 1..Len(table') : IsStorable(table'[i])
       /\ (resp'.op = "add" /\ CarriesBadValue(resp'.req)) =>
              (resp'.status = 400 /\ table' = table)
       /\ resp'.op = "upload" =>
              Len(table') - Len(table) <=
                  Cardinality({i \in 1..Len(resp'.req.rows) :
                                  ~CarriesBadValue(resp'.req.rows[i])})]_vars

\* A negative amount was just refused while the table holds rows.
C2_Witness ==
    /\ resp.op = "add"
    /\ resp.req = NegativeAmount
    /\ resp.status = 400
    /\ Len(table) > 0

IsDescending(s) == \A i \in 1..Len(s) : \A j \in 1..Len(s) : i < j => s[i] >= s[j]

TotalFor(totals, ty) ==
    IF ty = "income" THEN totals.total_income
    ELSE IF ty = "expense" THEN totals.total_expense
    ELSE totals.total_investment

\* C3: in every ledger state and for every type, the breakdown of
\* generate_chart has one entry per distinct source of the type, is ordered
\* by descending total, and its values sum to the total calculate_totals
\* reports for the type.
C3_BreakdownSumsToTotal ==
    \A ty \in ValidTypes :
        LET chart == generate_chart(table, ty)
            rows == RowsOfType(table, ty)
        IN  chart.kind = "chart" =>
                /\ Len(chart.sources) = Cardinality({rows[i].source : i \in 1..Len(rows)})
                /\ SeqToSet(chart.sources) = {rows[i].source : i \in 1..Len(rows)}
                /\ IsDescending(chart.amounts)
                /\ FSum(chart.amounts) = TotalFor(calculate_totals(table), ty)

\* C7: an id that enters the table was never assigned before, the id a
\* successful insert answers with is such a new id, no two rows share an id,
\* and the rows that stay keep their id and their place.
C7_IdsNeverReused ==
    [][/\ \A id \in Ids(table') \ Ids(table) : id \notin assigned
       /\ (resp'.op = "add" /\ resp'.status = 201 /\ table' # table) =>
              (resp'.id \notin assigned /\ resp'.id \in Ids(table') \ Ids(table))
       /\ Cardinality(Ids(table')) = Len(table')
       /\ SelectSeq(table', LAMBDA t : t.id \in Ids(table))
              = SelectSeq(table, LAMBDA t : t.id \in Ids(table'))]_vars

\* An insert after a delete: id 2 is gone and the new row got 3, not 2.
C7_Witness ==
    /\ resp.op = "add"
    /\ resp.status = 201
    /\ resp.id = 3
    /\ Ids(table) = {1, 3}
    /\ assigned = {1, 2, 3}

\* C8: a delete of a stored id answers 200 and removes that row and no
\* other; a delete of an id not stored answers 404 and changes nothing; and
\* no step changes a field of a row that stays in the table.
C8_DeleteFrame ==
    [][/\ resp'.op = "delete" =>
              IF resp'.req \in Ids(table)
              THEN /\ resp'.status = 200
                   /\ Len(table') = Len(table) - 1
                   /\ resp'.req \notin Ids(table')
                   /\ \A i \in 1..Len(table) :
                          table[i].id # resp'.req => table[i] \in SeqToSet(table')
              ELSE resp'.status = 404 /\ table' = table
       /\ \A i \in 1..Len(table') :
              table'[i].id \in Ids(table) => table'[i] \in SeqToSet(table)]_vars

\* A stored row was just deleted and another row is still there.
C8_Witness ==
    /\ resp.op = "delete"
    /\ resp.status = 200
    /\ resp.req = 1
    /\ Ids(table) = {2, 3}

PassesValidation(row) ==
    /\ {"date", "type", "source", "amount"} \subseteq row.keys
    /\ row.amount.num
    /\ row.amount.v >= 0
    /\ row.type \in {"income", "expense", "investment"}

\* C10: an upload either commits every row of the file that passes the
\* validation, in the file's order, and reports their number, or reports an
\* error and leaves the table as it was.
C10_UploadAllOrNothing ==
    [][resp'.op = "upload" =>
          LET good == SelectSeq(resp'.req.rows, PassesValidation)
              n == Len(table)
          IN  \/ /\ resp'.data.kind = "success"
                 /\ resp'.count = Len(good)
                 /\ Len(table') = n + Len(good)
                 /\ SubSeq(table', 1, n) = table
                 /\ \A i \in 1..Len(good) :
                        /\ table'[n + i].type = good[i].type
                        /\ table'[n + i].source = good[i].source
                        /\ table'[n + i].date = good[i].date
                        /\ table'[n + i].amount = ToFloat(good[i].amount.v)
              \/ /\ resp'.data.kind = "error"
                 /\ table' = table]_vars

\* The second insert of a batch failed after the first had been executed.
C10_Witness ==
    /\ resp.op = "upload"
    /\ resp.data.kind = "error"
    /\ resp.req.xlsx
    /\ resp.req.rows = <<Valid(11, "income", 1, 1), Unbindable>>
    /\ Len(table) > 0

----------------------------------------------------------------------------
(* Claims about the dashboard, under SpecDash *)

ChartStep(ty) == dash.pc = ty /\ dash'.pc = NextChart(ty)

TrendStep == dash.pc = "trend" /\ dash'.pc = "idle"

BreakdownTotal(chart) == IF chart.kind = "chart" THEN chart.total ELSE 0

\* C9: a dashboard request computes its totals and its breakdowns from one
\* snapshot of the table: when its three breakdowns are done, the total of
\* each equals the total calculate_totals gave the same request for the type,
\* whatever other requests wrote meanwhile.
C9_OneSnapshot ==
    dash.pc = "trend" =>
        \A ty \in ValidTypes : BreakdownTotal(dash.charts[ty]) = TotalFor(dash.totals, ty)

----------------------------------------------------------------------------
(* Claims about the analytics page, under SpecTop *)

Df == ReadSqlOrderByDate(table)

SourcesOf(ty) == {Df[i].source : i \in {j \in 1..Len(Df) : Df[j].type = ty}}

RECURSIVE SumWhere(_, _, _)
SumWhere(rows, ty, src) ==
    IF rows = <<>> THEN 0
    ELSE LET rest == SumWhere(SubSeq(rows, 1, Len(rows) - 1), ty, src)
             last == rows[Len(rows)]
         IN  IF last.type = ty /\ last.source = src THEN FAdd(rest, last.amount) ELSE rest

\* The place in the frame of the first row of a source.
FirstSeen(ty, src) ==
    CHOOSE i \in 1..Len(Df) :
        /\ Df[i].type = ty /\ Df[i].source = src
        /\ \A j \in 1..Len(Df) : (Df[j].type = ty /\ Df[j].source = src) => i <= j

Computed == resp.op = "analytics" /\ resp.data.kind = "analytics"

TopOf(ty) == IF ty = "income" THEN resp.data.top_income ELSE resp.data.top_expenses

\* At most 5 entries, each a source of the type with the sum of its rows,
\* no source twice, largest sum first, and no source left out has a larger
\* sum than one that is listed.
TopIsRanking(ty) ==
    LET top == TopOf(ty)
    IN  /\ Len(top) <= 5
        /\ Len(top) = IF Cardinality(SourcesOf(ty)) < 5
                      THEN Cardinality(SourcesOf(ty)) ELSE 5
        /\ \A i \in 1..Len(top) :
               /\ top[i].source \in SourcesOf(ty)
               /\ top[i].amount = SumWhere(Df, ty, top[i].source)
        /\ \A i \in 1..Len(top) : \A j \in 1..Len(top) :
               i < j => (top[i].amount >= top[j].amount /\ top[i].source # top[j].source)
        /\ \A src \in SourcesOf(ty) \ {top[i].source : i \in 1..Len(top)} :
               \A i \in 1..Len(top) : SumWhere(Df, ty, src) <= top[i].amount

\* Of two listed sources with equal sums, the one met first in the
\* transactions comes first.
TiesInEncounterOrder(ty) ==
    LET top == TopOf(ty)
    IN  \A i \in 1..Len(top) : \A j \in 1..Len(top) :
            (i < j /\ top[i].amount = top[j].amount) =>
                FirstSeen(ty, top[i].source) < FirstSeen(ty, top[j].source)

MonthsOfData == {MonthOf(Df[i].date) : i \in 1..Len(Df)}

RECURSIVE SumOfMonth(_, _, _)
SumOfMonth(rows, m, ty) ==
    IF rows = <<>> THEN 0
    ELSE LET rest == SumOfMonth(SubSeq(rows, 1, Len(rows) - 1), m, ty)
             last == rows[Len(rows)]
         IN  IF MonthOf(last.date) = m /\ last.type = ty
             THEN FAdd(rest, last.amount) ELSE rest

HasRows(m, ty) == \E i \in 1..Len(Df) : MonthOf(Df[i].date) = m /\ Df[i].type = ty

\* The months of the data, ascending, and the exact sum of every
\* (month, type) pair that has rows.
SeriesIsExact(series) ==
    /\ SeqToSet(series.months) = MonthsOfData
    /\ \A i \in 1..Len(series.months) : \A j \in 1..Len(series.months) :
           i < j => series.months[i] < series.months[j]
    /\ \A m \in MonthsOfData : \A ty \in ValidTypes :
           HasRows(m, ty) =>
               (ty \in series.columns /\ series.value[m][ty] = SumOfMonth(Df, m, ty))

====
